---- MODULE Spec2Model ----
(***************************************************************************)
(* eyebit_server: the EyeTribe protocol client (package eyetribe).         *)
(*                                                                         *)
(* Spec       the running program: the main goroutine (StartPullFrameTask, *)
(*            Close), the heartbeat goroutine, the ingestion goroutine and *)
(*            one HTTP handler iterating c.FrameList, interleaved at the   *)
(*            points where the code lets them interleave (no lock guards   *)
(*            the list). One operation of container/list (Front, Next,     *)
(*            Remove, PushBack) is one step: a reader sees the list before *)
(*            or after it, not inside it.                                  *)
(*                                                                         *)
(* SpecLive   Spec with the fairness of Go's scheduling, for what must      *)
(*            eventually happen (Close returns).                           *)
(*                                                                         *)
(* SpecQuery  the handlers' computations (GetFixationDataList,             *)
(*            ServeEyeTrackCheck, ServeEyeTrackCheckFixation) applied to   *)
(*            the buffers, configurations and form values of bounded sets. *)
(*                                                                         *)
(* SpecConnect  CreateServerConnection against every answer of the device  *)
(*            server: dial, status request, the tests of the response,     *)
(*            StartHeartbeatTask.                                          *)
(*                                                                         *)
(* SpecApi    the connection's exported methods called in any order        *)
(*            (StartPullFrameTask while a goroutine runs, GetServerStatus  *)
(*            on the live connection), with the messages on the socket.    *)
(*                                                                         *)
(* SpecTimed  the ingestion goroutine stamping frames with a clock, and    *)
(*            the detector run on the buffer it has built.                 *)
(*                                                                         *)
(* Go values: a nil pointer or nil channel is 0; a *list.Element is its    *)
(* allocation number (> 0); a *Frame held by an element is the number of   *)
(* the frame message it was decoded from, 0 for a nil *Frame.              *)
(***************************************************************************)
EXTENDS Integers, Sequences, FiniteSets, TLC

\* ---------------------------------------------------------------- bounds
\* Retention times StartPullFrameTask is called with: 1..MaxSeconds.
MaxSeconds == 3
\* Entries the ingestion goroutine pushes in one run of the program.
MaxPush == 4
\* Calls of Close made by the main goroutine.
MaxCloseCalls == 2
\* Calls of StartPullFrameTask made by the main goroutine.
MaxStarts == 2

\* The "framerate" field of the accepted status response (GetServerStatus
\* stores it unvalidated): 1000 makes numFrames = second, 4000 makes it 0,
\* and 0 makes the division panic.
FrameRates == {0, 1000, 4000}

\* What one Decode of PullOneFrame can produce.
MsgKinds == {"frame", "heartbeat", "badstatus", "noframe", "nullframe", "error"}

VARIABLES
    sockOpen,                     \* rw.Connection is open
    HeartbeatTimeoutMillisecond,  \* c.HeartbeatTimeoutMillisecond
    second,                       \* the argument main passes to StartPullFrameTask
    FrameList,                    \* c.FrameList: <<[elem, frame], ...>>, front first
    QuitHeartbeatTask,            \* c.QuitHeartbeatTask: 0 = nil, 1 = a channel
    QuitPullTask,                 \* c.QuitPullTask: 0 = nil, 1 = a channel
    hbPc,                         \* heartbeat goroutine: "none", "select", "sending", "done"
    hbErr,                        \* the goroutine's err != nil after its last PushOneJson
    pullPc,                       \* ingestion goroutine: "none", "select", "decoding", "add", "push", "done"
    pullExit,                     \* why the ingestion goroutine ended: "none", "quit", "error"
    numFrames,                    \* numFrames captured by the ingestion goroutine
    frame,                        \* the goroutine's local frame (0 = nil; a Frame record in SpecTimed)
    lastMsg,                      \* kind of the message the last Decode produced
    nextElem,                     \* number of the next list element / message
    crashed,                      \* a goroutine panicked: the process is gone
    closeIdx,                     \* 0: main is not in Close; i: about to run CloseSteps[i]
    closeLog,                     \* the steps the current / last Close has completed
    closeCalls,                   \* calls of Close that returned
    startCalls,                   \* calls of StartPullFrameTask made
    qPc,                          \* the handler: "idle", "iter", "done"
    qCursor,                      \* its loop variable f (an element, 0 = nil)
    qSeen,                        \* the elements its loop body has visited, in order
    qSnaps,                       \* every content the list had during the iteration
    frames,                       \* SpecQuery: the *Frame values of c.FrameList, front first
    Fixation,                     \* SpecQuery: c.CheckConfig.Fixation
    TargetList,                   \* SpecQuery: c.CheckConfig.TargetList
    form,                         \* SpecQuery: strconv.Atoi of the delta_millisecond form value
    nowMs,                        \* SpecQuery: time.Now() in the handler, in milliseconds
    called,                       \* SpecQuery: the handlers that have run
    fixations,                    \* SpecQuery: what GetFixationDataList returned
    checkResult,                  \* SpecQuery: what ServeEyeTrackCheck encoded
    checkFixResult,               \* SpecQuery: what ServeEyeTrackCheckFixation encoded
    server,                       \* SpecConnect: what the device server does with the status request
    connPc,                       \* SpecConnect: CreateServerConnection's position
    connResult,                   \* SpecConnect: what CreateServerConnection did: "none", "error", "ok", "panic"
    tasks,                        \* SpecApi: the ingestion goroutines started, each [pc, numFrames, frame]
    wire,                         \* SpecApi: the messages the server has sent and nobody has decoded yet
    reqPc,                        \* SpecApi: GetServerStatus's RequestOne: "idle", "sent", "done"
    response,                     \* SpecApi: the kind of the message RequestOne returned
    clock                         \* SpecTimed: time.Now(), in milliseconds

vars == <<sockOpen, HeartbeatTimeoutMillisecond, second, FrameList, QuitHeartbeatTask,
          QuitPullTask, hbPc, hbErr, pullPc, pullExit, numFrames, frame, lastMsg, nextElem,
          crashed, closeIdx, closeLog, closeCalls, startCalls, qPc, qCursor, qSeen, qSnaps,
          frames, Fixation, TargetList, form, nowMs, called, fixations, checkResult,
          checkFixResult, server, connPc, connResult, tasks, wire, reqPc, response, clock>>

connVars == <<sockOpen, HeartbeatTimeoutMillisecond, second>>
hbVars == <<QuitHeartbeatTask, hbPc, hbErr>>
pullVars == <<QuitPullTask, pullPc, pullExit, numFrames, frame, lastMsg, nextElem>>
mainVars == <<closeIdx, closeLog, closeCalls, startCalls>>
queryVars == <<qPc, qCursor, qSeen, qSnaps>>
inputVars == <<frames, Fixation, TargetList, form, nowMs>>
outputVars == <<called, fixations, checkResult, checkFixResult>>
connectVars == <<server, connPc, connResult>>
apiVars == <<tasks, wire, reqPc, response>>
extraVars == <<connectVars, apiVars, clock>>

\* ------------------------------------------------------------- helpers
\* Go's integer division truncates toward zero.
GoDiv(a, b) ==
    IF (a >= 0) = (b > 0)
    THEN (IF a >= 0 THEN a ELSE -a) \div (IF b > 0 THEN b ELSE -b)
    ELSE -((IF a >= 0 THEN a ELSE -a) \div (IF b > 0 THEN b ELSE -b))

\* The elements of a list, front first.
Elems(l) == [i \in 1..Len(l) |-> l[i].elem]

\* list.Front(): the first element, nil for an empty list.
Front(l) == IF Len(l) = 0 THEN 0 ELSE l[1].elem

\* e.Next(): nil once e was removed (Remove clears e.next and e.list), nil
\* for the last element, else the element after e.
ElemNext(l, e) ==
    IF \E i \in 1..Len(l) : l[i].elem = e
    THEN LET i == CHOOSE j \in 1..Len(l) : l[j].elem = e
         IN  IF i < Len(l) THEN l[i + 1].elem ELSE 0
    ELSE 0

\* What the handler's snapshot set becomes when the list becomes l.
Snap(l) == IF qPc = "iter" THEN qSnaps \cup {Elems(l)} ELSE qSnaps

\* The connection CreateServerConnection returns: the socket open, the list
\* empty, the heartbeat goroutine running, no ingestion goroutine yet.
ConnectionInit(rates, seconds) ==
    /\ sockOpen = TRUE
    /\ HeartbeatTimeoutMillisecond \in rates
    /\ second \in seconds
    /\ FrameList = <<>>
    /\ QuitHeartbeatTask = 1
    /\ QuitPullTask = 0
    /\ hbPc = "select"
    /\ hbErr = FALSE
    /\ pullPc = "none"
    /\ pullExit = "none"
    /\ numFrames = 0
    /\ frame = 0
    /\ lastMsg = "none"
    /\ nextElem = 1
    /\ crashed = FALSE
    /\ closeIdx = 0
    /\ closeLog = <<>>
    /\ closeCalls = 0
    /\ startCalls = 0
    /\ qPc = "idle"
    /\ qCursor = 0
    /\ qSeen = <<>>
    /\ qSnaps = {}

\* A map[string]int without keys, and make(EyeTrackCheckResult).
EmptyMap == [k \in {} |-> 0]
EmptyResult == [k \in {} |-> FALSE]

\* No handler has computed anything.
NoResults ==
    /\ called = {}
    /\ fixations = [panic |-> FALSE, events |-> <<>>]
    /\ checkResult = [panic |-> FALSE, result |-> EmptyResult]
    /\ checkFixResult = [panic |-> FALSE, result |-> EmptyResult]

\* --------------------------------------------- CreateServerConnection
\* A value of the status response's "values" map (map[string]interface{}):
\* absent, a JSON number (decoded as float64), or anything else (a string,
\* null, an object).
Missing == [kind |-> "missing", n |-> 0]
NotNumber == [kind |-> "other", n |-> 0]
Number(n) == [kind |-> "number", n |-> n]

\* What the device server does: dial is whether ResolveTCPAddr and DialTCP
\* succeed, decode whether RequestOne's write and Decode succeed; the rest
\* is the decoded status response.
Servers ==
    [dial : BOOLEAN,
     decode : BOOLEAN,
     statuscode : {200, 500},
     iscalibrated : {"missing", "true", "false", "other"},
     heartbeatinterval : {Missing, NotNumber, Number(0), Number(3000)},
     screenresw : {Missing, NotNumber, Number(1920)},
     screenresh : {Missing, NotNumber, Number(1080)},
     framerate : {Missing, NotNumber, Number(1000)}]

\* The server whose response CreateServerConnection accepted with the given
\* framerate.
ServerAccepted(rate) ==
    [dial |-> TRUE, decode |-> TRUE, statuscode |-> 200, iscalibrated |-> "true",
     heartbeatinterval |-> Number(3000), screenresw |-> Number(1920),
     screenresh |-> Number(1080), framerate |-> Number(rate)]

\* ConvInterfaceToInt64: an error for an absent field; "val.(float64)" is a
\* single-value type assertion and panics on a value that is no float64.
ConvInterfaceToInt64(val) ==
    [err |-> val.kind = "missing",
     panic |-> val.kind = "other",
     n |-> IF val.kind = "number" THEN val.n ELSE 0]

\* The outcomes of GetServerStatus.
StatusError == [outcome |-> "error", calibrated |-> FALSE, framerate |-> 0]
StatusPanic == [outcome |-> "panic", calibrated |-> FALSE, framerate |-> 0]

\* GetServerStatus on the response of server sv, its tests in the code's
\* order; "iscalibrated.(bool)" in the return statement panics on a value
\* that is no bool.
GetServerStatus(sv) ==
    LET interval == ConvInterfaceToInt64(sv.heartbeatinterval)
        width == ConvInterfaceToInt64(sv.screenresw)
        height == ConvInterfaceToInt64(sv.screenresh)
        rate == ConvInterfaceToInt64(sv.framerate)
    IN  IF ~sv.decode THEN StatusError
        ELSE IF sv.statuscode # 200 THEN StatusError
        ELSE IF sv.iscalibrated = "missing" THEN StatusError
        ELSE IF interval.err THEN StatusError
        ELSE IF interval.panic THEN StatusPanic
        ELSE IF interval.n <= 0 THEN StatusError
        ELSE IF width.err THEN StatusError
        ELSE IF width.panic THEN StatusPanic
        ELSE IF height.err THEN StatusError
        ELSE IF height.panic THEN StatusPanic
        ELSE IF rate.err THEN StatusError
        ELSE IF rate.panic THEN StatusPanic
        ELSE IF sv.iscalibrated = "other" THEN StatusPanic
        ELSE [outcome |-> "ok", calibrated |-> sv.iscalibrated = "true", framerate |-> rate.n]

\* CreateServerConnection has returned a connection, accepted at the given
\* framerate.
ConnectDone(rate) ==
    /\ server = ServerAccepted(rate)
    /\ connPc = "done"
    /\ connResult = "ok"

\* No call of the connection's API beyond what Spec models, and the clock
\* at its origin.
NoApi ==
    /\ tasks = <<>>
    /\ wire = <<>>
    /\ reqPc = "idle"
    /\ response = "none"
    /\ clock = 0

Init ==
    /\ ConnectionInit(FrameRates, 1..MaxSeconds)
    /\ ConnectDone(HeartbeatTimeoutMillisecond)
    /\ NoApi
    /\ frames = <<>>
    /\ Fixation = [isNil |-> TRUE, map |-> EmptyMap]
    /\ TargetList = <<>>
    /\ form = [err |-> TRUE, n |-> 0]
    /\ nowMs = 0
    /\ NoResults

\* ------------------------------------------------ heartbeat goroutine
\* StartHeartbeatTask's goroutine, case <- tick: PushOneJson is entered.
HeartbeatTick ==
    /\ ~crashed
    /\ hbPc = "select"
    /\ hbPc' = "sending"
    /\ UNCHANGED <<extraVars, inputVars, outputVars, connVars, FrameList, QuitHeartbeatTask, hbErr, pullVars, crashed, mainVars, queryVars>>

\* Mutant of HeartbeatQuit: the goroutine ends after every send.
HeartbeatQuit_Always(err) == TRUE

\* The goroutine's "if err := ...; err != nil { quitFlug = true }".
HeartbeatQuit(err) == err

\* PushOneJson returns: an error ends the goroutine (quitFlug = true). A
\* write on a closed socket fails.
HeartbeatSend(ok) ==
    /\ ~crashed
    /\ hbPc = "sending"
    /\ (~sockOpen => ~ok)
    /\ hbErr' = ~ok
    /\ hbPc' = IF HeartbeatQuit(~ok) THEN "done" ELSE "select"
    /\ UNCHANGED <<extraVars, inputVars, outputVars, connVars, FrameList, QuitHeartbeatTask, pullVars, crashed, mainVars, queryVars>>

\* ------------------------------------------------- main goroutine: Close
\* Mutant of CloseSteps: the two tasks stopped in the other order.
CloseSteps_PullFirst == <<"StopPullFrameTask", "StopHeartbeatTask", "ConnectionClose">>

\* Mutant of CloseSteps: the socket closed before the tasks are stopped.
CloseSteps_SocketFirst == <<"ConnectionClose", "StopHeartbeatTask", "StopPullFrameTask">>

\* The calls Close makes, in the order it makes them.
CloseSteps == <<"StopHeartbeatTask", "StopPullFrameTask", "ConnectionClose">>

\* Close is entered.
CloseCall ==
    /\ ~crashed
    /\ closeIdx = 0
    /\ closeCalls < MaxCloseCalls
    /\ closeIdx' = 1
    /\ closeLog' = <<>>
    /\ UNCHANGED <<extraVars, inputVars, outputVars, connVars, FrameList, hbVars, pullVars, crashed, closeCalls, startCalls, queryVars>>

\* One call of Close has returned: the next one, or Close itself returns.
CloseAdvance ==
    /\ closeLog' = Append(closeLog, CloseSteps[closeIdx])
    /\ closeIdx' = IF closeIdx = Len(CloseSteps) THEN 0 ELSE closeIdx + 1
    /\ closeCalls' = IF closeIdx = Len(CloseSteps) THEN closeCalls + 1 ELSE closeCalls
    /\ UNCHANGED startCalls

\* Main is inside Close, at the call named step.
AtCloseStep(step) == closeIdx > 0 /\ CloseSteps[closeIdx] = step

\* StopHeartbeatTask: returns at once on a nil channel; else sends on the
\* unbuffered channel, which completes when the goroutine's select receives
\* it (the goroutine then ends), and sets the channel to nil.
StopHeartbeatTask ==
    /\ ~crashed
    /\ AtCloseStep("StopHeartbeatTask")
    /\ \/ /\ QuitHeartbeatTask = 0
          /\ UNCHANGED hbVars
       \/ /\ QuitHeartbeatTask # 0
          /\ hbPc = "select"
          /\ hbPc' = "done"
          /\ QuitHeartbeatTask' = 0
          /\ UNCHANGED hbErr
    /\ CloseAdvance
    /\ UNCHANGED <<extraVars, inputVars, outputVars, connVars, FrameList, pullVars, crashed, queryVars>>

\* Main is blocked in StopPullFrameTask's send on c.QuitPullTask.
PullQuitOffered == AtCloseStep("StopPullFrameTask") /\ QuitPullTask # 0

\* StopPullFrameTask: returns an error on a nil channel; else sends on the
\* unbuffered channel, which completes when the ingestion goroutine's select
\* receives it (the goroutine then ends). The channel field is left as it is.
StopPullFrameTask ==
    /\ ~crashed
    /\ AtCloseStep("StopPullFrameTask")
    /\ \/ /\ QuitPullTask = 0
          /\ UNCHANGED <<pullPc, pullExit>>
       \/ /\ QuitPullTask # 0
          /\ pullPc = "select"
          /\ pullPc' = "done"
          /\ pullExit' = "quit"
    /\ CloseAdvance
    /\ UNCHANGED <<extraVars, inputVars, outputVars, connVars, FrameList, hbVars, QuitPullTask, numFrames, frame, lastMsg,
                   nextElem, crashed, queryVars>>

\* c.Connection.Close(): the socket is closed (closing it again is an error
\* value Close returns, nothing else).
ConnectionClose ==
    /\ ~crashed
    /\ AtCloseStep("ConnectionClose")
    /\ sockOpen' = FALSE
    /\ CloseAdvance
    /\ UNCHANGED <<extraVars, inputVars, outputVars, HeartbeatTimeoutMillisecond, second, FrameList, hbVars, pullVars,
                   crashed, queryVars>>

\* ------------------------------------ main goroutine: StartPullFrameTask
\* numFrames := int(second * 1000 / c.HeartbeatTimeoutMillisecond)
NumFramesOf(sec, rate) == GoDiv(sec * 1000, rate)

\* StartPullFrameTask(second): the push-mode request is written (a failed
\* write returns without starting anything), numFrames is computed (a zero
\* divisor panics), a fresh channel is made and the goroutine started. Main
\* calls it once; a caller restarting ingestion calls it again after the
\* goroutine has ended.
StartPullFrameTask(encodeOk) ==
    /\ ~crashed
    /\ closeIdx = 0
    /\ pullPc \in {"none", "done"}
    /\ startCalls < MaxStarts
    /\ (~sockOpen => ~encodeOk)
    /\ startCalls' = startCalls + 1
    /\ IF ~encodeOk
       THEN UNCHANGED <<pullVars, crashed>>
       ELSE IF HeartbeatTimeoutMillisecond = 0
       THEN /\ crashed' = TRUE
            /\ UNCHANGED pullVars
       ELSE /\ numFrames' = NumFramesOf(second, HeartbeatTimeoutMillisecond)
            /\ QuitPullTask' = 1
            /\ pullPc' = "select"
            /\ pullExit' = "none"
            /\ UNCHANGED <<frame, lastMsg, nextElem, crashed>>
    /\ UNCHANGED <<extraVars, inputVars, outputVars, connVars, FrameList, hbVars, closeIdx, closeLog, closeCalls, queryVars>>

\* ------------------------------------------------- ingestion goroutine
\* The goroutine's select: case <- c.QuitPullTask is taken when main is
\* blocked in the send (see StopPullFrameTask); otherwise default runs and
\* PullOneFrame blocks in Decode.
PullSelectDefault ==
    /\ ~crashed
    /\ pullPc = "select"
    /\ ~PullQuitOffered
    /\ nextElem <= MaxPush
    /\ pullPc' = "decoding"
    /\ UNCHANGED <<extraVars, inputVars, outputVars, connVars, FrameList, hbVars, QuitPullTask, pullExit, numFrames, frame,
                   lastMsg, nextElem, crashed, mainVars, queryVars>>

\* PullOneFrame's result for a decoded message of the given kind, n being
\* the number of the message: a decode error; nil, nil for a status code
\* other than 200, a heartbeat and a message without "frame"; a nil
\* dereference for "frame": null; else the frame.
PullOneFrame(kind, n) ==
    [err   |-> kind = "error",
     panic |-> kind = "nullframe",
     frame |-> IF kind = "frame" THEN n ELSE 0]

\* Mutant of QuitOnPullError: the error is logged and the loop goes on.
QuitOnPullError_GoOn(err) == FALSE

\* The goroutine's "if err != nil { quitFlug = true }".
QuitOnPullError(err) == err

\* Decode returns inside PullOneFrame and the goroutine looks at the result.
\* Reading from a closed socket is an error.
PullDecode(kind) ==
    /\ ~crashed
    /\ pullPc = "decoding"
    /\ (~sockOpen => kind = "error")
    /\ lastMsg' = kind
    /\ LET r == PullOneFrame(kind, nextElem)
       IN  IF r.panic
           THEN /\ crashed' = TRUE
                /\ UNCHANGED <<pullPc, pullExit, frame>>
           ELSE IF QuitOnPullError(r.err)
           THEN /\ pullPc' = "done"
                /\ pullExit' = "error"
                /\ UNCHANGED <<frame, crashed>>
           ELSE /\ pullPc' = "add"
                /\ frame' = r.frame
                /\ UNCHANGED <<pullExit, crashed>>
    /\ UNCHANGED <<extraVars, inputVars, outputVars, connVars, FrameList, hbVars, QuitPullTask, numFrames, nextElem,
                   mainVars, queryVars>>

\* Mutant of MustEvict: the comparison off by one.
MustEvict_OffByOne(len, n) == len > n

\* AddOneFrame's "c.FrameList.Len() >= numFrames".
MustEvict(len, n) == len >= n

\* AddOneFrame, first half: Remove(Front()) when the list is full. Front()
\* of an empty list is nil and Remove(nil) dereferences it.
AddOneFrameEvict ==
    /\ ~crashed
    /\ pullPc = "add"
    /\ IF MustEvict(Len(FrameList), numFrames)
       THEN IF Len(FrameList) = 0
            THEN /\ crashed' = TRUE
                 /\ UNCHANGED <<FrameList, pullPc, qSnaps>>
            ELSE /\ FrameList' = Tail(FrameList)
                 /\ qSnaps' = Snap(Tail(FrameList))
                 /\ pullPc' = "push"
                 /\ UNCHANGED crashed
       ELSE /\ pullPc' = "push"
            /\ UNCHANGED <<FrameList, crashed, qSnaps>>
    /\ UNCHANGED <<extraVars, inputVars, outputVars, connVars, hbVars, QuitPullTask, pullExit, numFrames, frame, lastMsg,
                   nextElem, mainVars, qPc, qCursor, qSeen>>

\* AddOneFrame, second half: PushBack(frame), and the goroutine loops.
AddOneFramePush ==
    /\ ~crashed
    /\ pullPc = "push"
    /\ FrameList' = Append(FrameList, [elem |-> nextElem, frame |-> frame])
    /\ qSnaps' = Snap(FrameList')
    /\ nextElem' = nextElem + 1
    /\ pullPc' = "select"
    /\ UNCHANGED <<extraVars, inputVars, outputVars, connVars, hbVars, QuitPullTask, pullExit, numFrames, frame, lastMsg,
                   crashed, mainVars, qPc, qCursor, qSeen>>

\* ---------------------------------------------------- an HTTP handler
\* "for f := c.FrameList.Front(); ...": the loop of CreateHeatMapImage,
\* GetFixationDataList and ServeEyeTrackCheck starts.
QueryStart ==
    /\ ~crashed
    /\ qPc \in {"idle", "done"}
    /\ qPc' = "iter"
    /\ qCursor' = Front(FrameList)
    /\ qSeen' = <<>>
    /\ qSnaps' = {Elems(FrameList)}
    /\ UNCHANGED <<extraVars, inputVars, outputVars, connVars, FrameList, hbVars, pullVars, crashed, mainVars>>

\* One pass of the loop: the body reads f.Value, then f = f.Next().
QueryStep ==
    /\ ~crashed
    /\ qPc = "iter"
    /\ qCursor # 0
    /\ qSeen' = Append(qSeen, qCursor)
    /\ qCursor' = ElemNext(FrameList, qCursor)
    /\ UNCHANGED <<extraVars, inputVars, outputVars, connVars, FrameList, hbVars, pullVars, crashed, mainVars, qPc, qSnaps>>

\* f == nil: the loop ends.
QueryEnd ==
    /\ ~crashed
    /\ qPc = "iter"
    /\ qCursor = 0
    /\ qPc' = "done"
    /\ UNCHANGED <<extraVars, inputVars, outputVars, connVars, FrameList, hbVars, pullVars, crashed, mainVars, qCursor, qSeen, qSnaps>>

Next ==
    \/ HeartbeatTick
    \/ \E ok \in BOOLEAN : HeartbeatSend(ok)
    \/ CloseCall
    \/ StopHeartbeatTask
    \/ StopPullFrameTask
    \/ ConnectionClose
    \/ \E encodeOk \in BOOLEAN : StartPullFrameTask(encodeOk)
    \/ PullSelectDefault
    \/ \E kind \in MsgKinds : PullDecode(kind)
    \/ AddOneFrameEvict
    \/ AddOneFramePush
    \/ QueryStart
    \/ QueryStep
    \/ QueryEnd

Spec == Init /\ [][Next]_vars

\* =====================================================================
\* SpecQuery: the handlers' computations on the frames they read.
\*
\* A *Frame is [isNil, hasAvg, X, Y, GoTime]: isNil for a nil pointer,
\* hasAvg for Avg != nil, GoTime in milliseconds. Coordinates are integers;
\* the detector's centroid is kept as an exact fraction [num, den] (den > 0,
\* lowest terms), so float64 rounding is not modelled.
\* =====================================================================
\* ---------------------------------------------------------------- bounds
\* Length of the buffers a handler is run on.
MaxLen == 3

NilFrame == [isNil |-> TRUE, hasAvg |-> FALSE, X |-> 0, Y |-> 0, GoTime |-> 0]
NoAvgFrame(t) == [isNil |-> FALSE, hasAvg |-> FALSE, X |-> 0, Y |-> 0, GoTime |-> t]
GazeFrame(x, y, t) == [isNil |-> FALSE, hasAvg |-> TRUE, X |-> x, Y |-> y, GoTime |-> t]

\* Arrival times and gaze points of the frames tried: <<0, 0>> is the
\* device's "no gaze" point, <<10, 10>> lies within the default distance of
\* it, <<50, 50>> on the corner of the first target, <<200, 200>> far away;
\* <<40, 40>> lies within the default distance of both <<10, 10>> and
\* <<50, 50>>, which are farther apart than it.
Times == {0, 100, 150}
Points == {<<0, 0>>, <<10, 10>>, <<40, 40>>, <<50, 50>>, <<200, 200>>}
FrameChoices ==
    {NilFrame} \cup {NoAvgFrame(t) : t \in Times}
               \cup {GazeFrame(p[1], p[2], t) : p \in Points, t \in Times}

\* GoTime is time.Now() at arrival: the stamps of the non-nil frames of a
\* buffer do not decrease from front to back.
TimeOrdered(l) ==
    \A i, j \in 1..Len(l) :
        (i < j /\ ~l[i].isNil /\ ~l[j].isNil) => l[i].GoTime <= l[j].GoTime

Buffers == {l \in UNION {[1..n -> FrameChoices] : n \in 0..MaxLen} : TimeOrdered(l)}

\* c.CheckConfig.Fixation as LoadEyeTrackCheckConfig can leave it: nil (no
\* "fixation" in the file), a map without the keys, a map with one of them,
\* a map with both.
FixationChoices ==
    { [isNil |-> TRUE, map |-> EmptyMap],
      [isNil |-> FALSE, map |-> EmptyMap],
      [isNil |-> FALSE, map |-> [k \in {"max distance"} |-> 20]],
      [isNil |-> FALSE, map |-> [k \in {"min msec"} |-> 50]],
      [isNil |-> FALSE, map |-> [k \in {"max distance", "min msec"} |->
                                    IF k = "max distance" THEN 20 ELSE 50]] }

NilTarget == [isNil |-> TRUE, X |-> 0, Y |-> 0, Width |-> 0, Height |-> 0, Name |-> ""]
Target(x, y, w, h, name) ==
    [isNil |-> FALSE, X |-> x, Y |-> y, Width |-> w, Height |-> h, Name |-> name]
TargetListChoices ==
    { <<Target(0, 0, 50, 50, "logo")>>,
      <<Target(0, 0, 50, 50, "logo"), NilTarget, Target(100, 100, 150, 150, "banner")>> }

\* strconv.Atoi(r.FormValue("delta_millisecond")): an error (no or no
\* numeric value), or the number.
FormChoices == {[err |-> TRUE, n |-> 0], [err |-> FALSE, n |-> 100]}

\* time.Now() when the handler runs: after every arrival.
NowChoices == {200}

\* ------------------------------------------------------------ fractions
Abs(n) == IF n < 0 THEN -n ELSE n

RECURSIVE GCD(_, _)
GCD(a, b) == IF b = 0 THEN a ELSE GCD(b, a % b)

Rat(n, d) == LET g == GCD(Abs(n), d) IN [num |-> n \div g, den |-> d \div g]

\* ------------------------------------------------- GetFixationDataList
\* "v, ok := (*fixation)[key]; if !ok { v = def }".
FixationParam(fix, key, def) == IF key \in DOMAIN fix.map THEN fix.map[key] ELSE def

\* "frame == nil || frame.Avg == nil": the loops skip the entry.
NoGaze(f) == f.isNil \/ ~f.hasAvg

\* "frame.Avg.X <= 0.0 && frame.Avg.Y <= 0.0": the loops skip the frame.
IsSentinel(f) == f.X <= 0 /\ f.Y <= 0

\* The detector's variables before its loop: PrevTime and the previous
\* point are taken from the front entry, whatever it is.
DetectorStart(l, min_msec, now) ==
    LET hasFront == Len(l) > 0 /\ ~l[1].isNil
        PrevTime == IF hasFront THEN l[1].GoTime ELSE now
        PrevX == IF hasFront /\ l[1].hasAvg THEN l[1].X ELSE -1000000
        PrevY == IF hasFront /\ l[1].hasAvg THEN l[1].Y ELSE -1000000
    IN  [PrevX |-> PrevX, PrevY |-> PrevY, PrevTime |-> PrevTime,
         CurrentTime |-> PrevTime, check_time |-> PrevTime + min_msec,
         AverageX |-> Rat(PrevX, 1), AverageY |-> Rat(PrevY, 1),
         fixate_count |-> 0, result |-> <<>>]

\* "a * Average + b * Prev" with alpha = 1 / (1 + fixate_count), a = 1 - alpha
\* and b = alpha.
Blend(avg, prev, count) == Rat(count * avg.num + prev * avg.den, (count + 1) * avg.den)

\* "distance2 < (xx * xx + yy * yy)", in float64 in the code. With integers
\* of 32 bits the squares are formed only for offsets up to 30000; a larger
\* offset (the initial -1000000) exceeds every distance2 up to 30000 squared.
Farther(distance2, xx, yy) ==
    IF Abs(xx) > 30000 \/ Abs(yy) > 30000
    THEN distance2 <= 30000 * 30000
    ELSE distance2 < xx * xx + yy * yy

\* Mutant of EmitAtBreak: the count of the frames folded in is not tested.
EmitAtBreak_AnyCount(s, t) == s.check_time - t < 0

\* "check_time.Sub(t) < 0 && fixate_count > 1": the cluster left at the
\* frame stamped t is added to the result.
EmitAtBreak(s, t) == s.check_time - t < 0 /\ s.fixate_count > 1

\* Mutant of EventTime: the stamp of the last frame folded in.
EventTime_LastFrame(s) == s.CurrentTime

\* The time of "FixateData{AverageX, AverageY, PrevTime}".
EventTime(s) == s.PrevTime

\* One pass of the detector's loop body, for frame f.
DetectorStep(s, f, distance2, min_msec) ==
    IF NoGaze(f) THEN s
    ELSE IF IsSentinel(f) THEN s
    ELSE LET X == f.X
             Y == f.Y
             t == f.GoTime
             xx == s.PrevX - X
             yy == s.PrevY - Y
         IN  IF Farther(distance2, xx, yy)
             THEN [s EXCEPT
                     !.result = IF EmitAtBreak(s, t)
                                THEN Append(s.result, [X |-> s.AverageX, Y |-> s.AverageY,
                                                       GoTime |-> EventTime(s)])
                                ELSE s.result,
                     !.fixate_count = 0,
                     !.PrevTime = t,
                     !.check_time = t + min_msec,
                     !.PrevX = X,
                     !.PrevY = Y,
                     !.AverageX = Rat(X, 1),
                     !.AverageY = Rat(Y, 1)]
             ELSE [s EXCEPT
                     !.fixate_count = s.fixate_count + 1,
                     !.CurrentTime = t,
                     !.AverageX = Blend(s.AverageX, s.PrevX, s.fixate_count + 1),
                     !.AverageY = Blend(s.AverageY, s.PrevY, s.fixate_count + 1)]

RECURSIVE DetectorLoop(_, _, _, _, _)
DetectorLoop(s, l, i, distance2, min_msec) ==
    IF i > Len(l) THEN s
    ELSE DetectorLoop(DetectorStep(s, l[i], distance2, min_msec), l, i + 1, distance2, min_msec)

\* After the loop: the cluster still open is added when it lasted.
DetectorFlush(s) ==
    IF s.fixate_count > 0 /\ s.check_time - s.CurrentTime < 0
    THEN Append(s.result, [X |-> s.AverageX, Y |-> s.AverageY, GoTime |-> EventTime(s)])
    ELSE s.result

\* GetFixationDataList on the frames l. A nil c.CheckConfig.Fixation is
\* dereferenced: the handler panics.
GetFixationDataList(l, fix, now) ==
    IF fix.isNil
    THEN [panic |-> TRUE, events |-> <<>>]
    ELSE LET max_distance == FixationParam(fix, "max distance", 50)
             min_msec == FixationParam(fix, "min msec", 100)
             distance2 == max_distance * max_distance
             s == DetectorLoop(DetectorStart(l, min_msec, now), l, 1, distance2, min_msec)
         IN  [panic |-> FALSE, events |-> DetectorFlush(s)]

\* --------------------------------------------------- region checking
\* "x >= v.X && x <= (v.X + v.Width) && y >= v.Y && y <= (v.Y + v.Height)",
\* x and y being fractions.
InTarget(x, y, v) ==
    /\ x.num >= v.X * x.den
    /\ x.num <= (v.X + v.Width) * x.den
    /\ y.num >= v.Y * y.den
    /\ y.num <= (v.Y + v.Height) * y.den

\* The handlers' inner loop over the targets, for one point: every non-nil
\* target's entry is set to whether this point is inside it.
RECURSIVE CheckTargets(_, _, _, _, _)
CheckTargets(result, x, y, targets, i) ==
    IF i > Len(targets) THEN result
    ELSE LET v == targets[i]
             next == IF v.isNil THEN result
                     ELSE [k \in DOMAIN result \cup {v.Name} |->
                              IF k = v.Name THEN InTarget(x, y, v) ELSE result[k]]
         IN  CheckTargets(next, x, y, targets, i + 1)

\* "delta_millisecond := 10*1000", replaced when Atoi succeeded, and
\* check_time := now - delta_millisecond.
CheckTime(fm, now) == now - (IF fm.err THEN 10 * 1000 ELSE fm.n)

\* ServeEyeTrackCheck's loop over the frames, from entry i on.
RECURSIVE CheckFrames(_, _, _, _, _)
CheckFrames(result, l, i, targets, check_time) ==
    IF i > Len(l) THEN result
    ELSE LET f == l[i]
             next == IF NoGaze(f) THEN result
                     ELSE IF check_time - f.GoTime > 0 THEN result
                     ELSE IF IsSentinel(f) THEN result
                     ELSE CheckTargets(result, Rat(f.X, 1), Rat(f.Y, 1), targets, 1)
         IN  CheckFrames(next, l, i + 1, targets, check_time)

ServeEyeTrackCheck(l, targets, fm, now) ==
    [panic |-> FALSE,
     result |-> CheckFrames(EmptyResult, l, 1, targets, CheckTime(fm, now))]

\* ServeEyeTrackCheckFixation's loop over data_list, from event i on.
RECURSIVE CheckEvents(_, _, _, _, _)
CheckEvents(result, data_list, i, targets, check_time) ==
    IF i > Len(data_list) THEN result
    ELSE LET data == data_list[i]
             next == IF check_time - data.GoTime > 0 THEN result
                     ELSE CheckTargets(result, data.X, data.Y, targets, 1)
         IN  CheckEvents(next, data_list, i + 1, targets, check_time)

ServeEyeTrackCheckFixation(l, targets, fix, fm, now) ==
    LET got == GetFixationDataList(l, fix, now)
    IN  IF got.panic
        THEN [panic |-> TRUE, result |-> EmptyResult]
        ELSE [panic |-> FALSE,
              result |-> CheckEvents(EmptyResult, got.events, 1, targets, CheckTime(fm, now))]

\* ------------------------------------------------------------ SpecQuery
InitQuery ==
    /\ ConnectionInit({1000}, {1})
    /\ ConnectDone(HeartbeatTimeoutMillisecond)
    /\ NoApi
    /\ frames \in Buffers
    /\ Fixation \in FixationChoices
    /\ TargetList \in TargetListChoices
    /\ form \in FormChoices
    /\ nowMs \in NowChoices
    /\ NoResults

sysVars == <<extraVars, connVars, FrameList, hbVars, pullVars, crashed, mainVars, queryVars>>

\* One request is served on the frames; the three handlers are independent.
CallGetFixationDataList ==
    /\ called = {}
    /\ called' = {"GetFixationDataList"}
    /\ fixations' = GetFixationDataList(frames, Fixation, nowMs)
    /\ UNCHANGED <<sysVars, inputVars, checkResult, checkFixResult>>

CallServeEyeTrackCheck ==
    /\ called = {}
    /\ called' = {"ServeEyeTrackCheck"}
    /\ checkResult' = ServeEyeTrackCheck(frames, TargetList, form, nowMs)
    /\ UNCHANGED <<sysVars, inputVars, fixations, checkFixResult>>

CallServeEyeTrackCheckFixation ==
    /\ called = {}
    /\ called' = {"ServeEyeTrackCheckFixation"}
    /\ checkFixResult' = ServeEyeTrackCheckFixation(frames, TargetList, Fixation, form, nowMs)
    /\ UNCHANGED <<sysVars, inputVars, fixations, checkResult>>

NextQuery ==
    \/ CallGetFixationDataList
    \/ CallServeEyeTrackCheck
    \/ CallServeEyeTrackCheckFixation

SpecQuery == InitQuery /\ [][NextQuery]_vars

\* =====================================================================
\* SpecConnect: CreateServerConnection against the servers of Servers.
\* =====================================================================
\* Before CreateServerConnection: no socket, no goroutine, nothing stored.
InitConnect ==
    /\ server \in Servers
    /\ connPc = "start"
    /\ connResult = "none"
    /\ sockOpen = FALSE
    /\ HeartbeatTimeoutMillisecond = 0
    /\ second = 1
    /\ FrameList = <<>>
    /\ QuitHeartbeatTask = 0
    /\ QuitPullTask = 0
    /\ hbPc = "none"
    /\ hbErr = FALSE
    /\ pullPc = "none"
    /\ pullExit = "none"
    /\ numFrames = 0
    /\ frame = 0
    /\ lastMsg = "none"
    /\ nextElem = 1
    /\ crashed = FALSE
    /\ closeIdx = 0
    /\ closeLog = <<>>
    /\ closeCalls = 0
    /\ startCalls = 0
    /\ qPc = "idle"
    /\ qCursor = 0
    /\ qSeen = <<>>
    /\ qSnaps = {}
    /\ frames = <<>>
    /\ Fixation = [isNil |-> TRUE, map |-> EmptyMap]
    /\ TargetList = <<>>
    /\ form = [err |-> TRUE, n |-> 0]
    /\ nowMs = 0
    /\ NoResults
    /\ tasks = <<>>
    /\ wire = <<>>
    /\ reqPc = "idle"
    /\ response = "none"
    /\ clock = 0

restVars == <<second, FrameList, QuitPullTask, pullPc, pullExit, numFrames, frame, lastMsg,
              nextElem, mainVars, queryVars, inputVars, outputVars, apiVars, clock, hbErr>>

\* ResolveTCPAddr and DialTCP: an error is returned as it is.
ConnectDial ==
    /\ connPc = "start"
    /\ IF server.dial
       THEN /\ sockOpen' = TRUE
            /\ connPc' = "dialed"
            /\ UNCHANGED connResult
       ELSE /\ connPc' = "done"
            /\ connResult' = "error"
            /\ UNCHANGED sockOpen
    /\ UNCHANGED <<server, HeartbeatTimeoutMillisecond, QuitHeartbeatTask, hbPc, crashed, restVars>>

\* "calibrated, interval, err := ret.GetServerStatus()" and the test of err;
\* a panic inside it ends the process.
ConnectGetServerStatus ==
    /\ connPc = "dialed"
    /\ LET r == GetServerStatus(server)
       IN  /\ connPc' = IF r.outcome = "ok" THEN "status" ELSE "done"
           /\ connResult' = IF r.outcome = "ok" THEN connResult ELSE r.outcome
           /\ crashed' = (r.outcome = "panic")
           /\ HeartbeatTimeoutMillisecond' = r.framerate
    /\ UNCHANGED <<server, sockOpen, QuitHeartbeatTask, hbPc, restVars>>

\* "if calibrated != true" returns an error; else StartHeartbeatTask makes
\* the channel and starts the goroutine, and the connection is returned.
ConnectStartHeartbeat ==
    /\ connPc = "status"
    /\ connPc' = "done"
    /\ IF GetServerStatus(server).calibrated
       THEN /\ connResult' = "ok"
            /\ QuitHeartbeatTask' = 1
            /\ hbPc' = "select"
       ELSE /\ connResult' = "error"
            /\ UNCHANGED <<QuitHeartbeatTask, hbPc>>
    /\ UNCHANGED <<server, sockOpen, HeartbeatTimeoutMillisecond, crashed, restVars>>

NextConnect ==
    \/ ConnectDial
    \/ ConnectGetServerStatus
    \/ ConnectStartHeartbeat

SpecConnect == InitConnect /\ [][NextConnect]_vars

\* =====================================================================
\* SpecApi: the connection's exported methods called in any order by the
\* owner of the connection: StartPullFrameTask and StopPullFrameTask at any
\* time, GetServerStatus on the live connection, a query, Close. The
\* ingestion goroutines started are tasks[1], tasks[2], ...; wire holds the
\* messages the server has written to the socket, oldest first, and every
\* Decode on the connection's one json.Decoder takes the oldest.
\* =====================================================================
\* ---------------------------------------------------------------- bounds
\* Messages the socket holds undecoded.
MaxWire == 2
\* Entries the ingestion goroutines push in one run of SpecApi.
MaxApiPush == 2

InitApi ==
    /\ ConnectionInit({1000}, {1})
    /\ ConnectDone(HeartbeatTimeoutMillisecond)
    /\ NoApi
    /\ frames = <<>>
    /\ Fixation = [isNil |-> TRUE, map |-> EmptyMap]
    /\ TargetList = <<>>
    /\ form = [err |-> TRUE, n |-> 0]
    /\ nowMs = 0
    /\ NoResults

\* The ingestion goroutines that have not ended.
LiveTasks == {i \in 1..Len(tasks) : tasks[i].pc # "done"}

\* PushOneJson returns in the heartbeat goroutine; the server answers a
\* heartbeat it received with an acknowledgement of category "heartbeat".
ApiHeartbeatSend(ok) ==
    /\ ~crashed
    /\ hbPc = "sending"
    /\ (~sockOpen => ~ok)
    /\ (ok => Len(wire) < MaxWire)
    /\ hbErr' = ~ok
    /\ hbPc' = IF HeartbeatQuit(~ok) THEN "done" ELSE "select"
    /\ wire' = IF ok THEN Append(wire, "heartbeat") ELSE wire
    /\ UNCHANGED <<connectVars, tasks, reqPc, response, clock, inputVars, outputVars, connVars,
                   FrameList, QuitHeartbeatTask, pullVars, crashed, mainVars, queryVars>>

\* The server, in push mode, writes a frame message.
ServerPushFrame ==
    /\ ~crashed
    /\ sockOpen
    /\ QuitPullTask # 0
    /\ Len(wire) < MaxWire
    /\ wire' = Append(wire, "frame")
    /\ UNCHANGED <<connectVars, tasks, reqPc, response, clock, inputVars, outputVars, connVars,
                   FrameList, hbVars, pullVars, crashed, mainVars, queryVars>>

\* StartPullFrameTask(second), whatever goroutines are running: it has no
\* test of c.QuitPullTask or of a running goroutine.
ApiStartPullFrameTask(encodeOk) ==
    /\ ~crashed
    /\ closeIdx = 0
    /\ startCalls < MaxStarts
    /\ (~sockOpen => ~encodeOk)
    /\ startCalls' = startCalls + 1
    /\ IF ~encodeOk
       THEN UNCHANGED <<tasks, QuitPullTask, crashed>>
       ELSE IF HeartbeatTimeoutMillisecond = 0
       THEN /\ crashed' = TRUE
            /\ UNCHANGED <<tasks, QuitPullTask>>
       ELSE /\ tasks' = Append(tasks, [pc |-> "select",
                                       numFrames |-> NumFramesOf(second, HeartbeatTimeoutMillisecond),
                                       frame |-> 0])
            /\ QuitPullTask' = 1
            /\ UNCHANGED crashed
    /\ UNCHANGED <<connectVars, wire, reqPc, response, clock, inputVars, outputVars, connVars,
                   FrameList, hbVars, pullPc, pullExit, numFrames, frame, lastMsg, nextElem,
                   closeIdx, closeLog, closeCalls, queryVars>>

\* StopPullFrameTask, called on its own or by Close: on a nil channel Close
\* goes on; else the send completes when one goroutine's select receives
\* it, and that goroutine ends.
ApiStopPullFrameTask ==
    /\ ~crashed
    /\ closeIdx = 0 \/ AtCloseStep("StopPullFrameTask")
    /\ IF QuitPullTask = 0
       THEN /\ closeIdx # 0
            /\ UNCHANGED tasks
       ELSE \E i \in 1..Len(tasks) :
                /\ tasks[i].pc = "select"
                /\ tasks' = [tasks EXCEPT ![i].pc = "done"]
    /\ IF closeIdx = 0 THEN UNCHANGED mainVars ELSE CloseAdvance
    /\ UNCHANGED <<connectVars, wire, reqPc, response, clock, inputVars, outputVars, connVars,
                   FrameList, hbVars, pullVars, crashed, queryVars>>

\* Goroutine i's select takes default: PullOneFrame is entered.
ApiSelectDefault(i) ==
    /\ ~crashed
    /\ tasks[i].pc = "select"
    /\ ~PullQuitOffered
    /\ nextElem <= MaxApiPush
    /\ tasks' = [tasks EXCEPT ![i].pc = "decoding"]
    /\ UNCHANGED <<connectVars, wire, reqPc, response, clock, inputVars, outputVars, connVars,
                   FrameList, hbVars, pullVars, crashed, mainVars, queryVars>>

\* What Decode(&response) of PullOneFrame makes of a message: a status
\* response's values (a bool, numbers) do not unmarshal into
\* map[string]*Frame, which is a Decode error.
DecodedAs(kind) == IF kind = "status" THEN "error" ELSE kind

\* Goroutine i's Decode returns: with the oldest message of the socket, or
\* with an error once the socket is closed.
ApiDecode(i) ==
    /\ ~crashed
    /\ tasks[i].pc = "decoding"
    /\ sockOpen => wire # <<>>
    /\ LET kind == IF sockOpen THEN DecodedAs(Head(wire)) ELSE "error"
           r == PullOneFrame(kind, nextElem)
       IN  tasks' = [tasks EXCEPT ![i] =
                       IF QuitOnPullError(r.err)
                       THEN [@ EXCEPT !.pc = "done"]
                       ELSE [@ EXCEPT !.pc = "add", !.frame = r.frame]]
    /\ wire' = IF sockOpen THEN Tail(wire) ELSE wire
    /\ UNCHANGED <<connectVars, reqPc, response, clock, inputVars, outputVars, connVars,
                   FrameList, hbVars, pullVars, crashed, mainVars, queryVars>>

\* AddOneFrame in goroutine i, first half.
ApiAddOneFrameEvict(i) ==
    /\ ~crashed
    /\ tasks[i].pc = "add"
    /\ IF MustEvict(Len(FrameList), tasks[i].numFrames)
       THEN IF Len(FrameList) = 0
            THEN /\ crashed' = TRUE
                 /\ UNCHANGED <<FrameList, tasks>>
            ELSE /\ FrameList' = Tail(FrameList)
                 /\ tasks' = [tasks EXCEPT ![i].pc = "push"]
                 /\ UNCHANGED crashed
       ELSE /\ tasks' = [tasks EXCEPT ![i].pc = "push"]
            /\ UNCHANGED <<FrameList, crashed>>
    /\ UNCHANGED <<connectVars, wire, reqPc, response, clock, inputVars, outputVars, connVars,
                   hbVars, pullVars, mainVars, queryVars>>

\* AddOneFrame in goroutine i, second half.
ApiAddOneFramePush(i) ==
    /\ ~crashed
    /\ tasks[i].pc = "push"
    /\ FrameList' = Append(FrameList, [elem |-> nextElem, frame |-> tasks[i].frame])
    /\ nextElem' = nextElem + 1
    /\ tasks' = [tasks EXCEPT ![i].pc = "select"]
    /\ UNCHANGED <<connectVars, wire, reqPc, response, clock, inputVars, outputVars, connVars,
                   hbVars, QuitPullTask, pullPc, pullExit, numFrames, frame, lastMsg, crashed,
                   mainVars, queryVars>>

\* GetServerStatus on the live connection: RequestOne's PushOneJson writes
\* the request, and the server answers it with the status response.
ApiRequestSend ==
    /\ ~crashed
    /\ sockOpen
    /\ closeIdx = 0
    /\ reqPc = "idle"
    /\ Len(wire) < MaxWire + 1
    /\ reqPc' = "sent"
    /\ wire' = Append(wire, "status")
    /\ UNCHANGED <<connectVars, tasks, response, clock, inputVars, outputVars, connVars,
                   FrameList, hbVars, pullVars, crashed, mainVars, queryVars>>

\* RequestOne's PullOneJson: Decode returns the oldest message of the
\* socket, whatever it answers.
ApiRequestReceive ==
    /\ ~crashed
    /\ sockOpen
    /\ reqPc = "sent"
    /\ wire # <<>>
    /\ response' = Head(wire)
    /\ wire' = Tail(wire)
    /\ reqPc' = "done"
    /\ UNCHANGED <<connectVars, tasks, clock, inputVars, outputVars, connVars,
                   FrameList, hbVars, pullVars, crashed, mainVars, queryVars>>

\* A query (CreateHeatMapImage, GetFixationDataList, ServeEyeTrackCheck)
\* walks c.FrameList from Front() with Next(): it reads and writes nothing.
ApiQuery ==
    /\ ~crashed
    /\ qPc = "idle"
    /\ qPc' = "done"
    /\ qSeen' = Elems(FrameList)
    /\ UNCHANGED <<extraVars, inputVars, outputVars, connVars, FrameList, hbVars, pullVars,
                   crashed, mainVars, qCursor, qSnaps>>

NextApi ==
    \/ HeartbeatTick
    \/ \E ok \in BOOLEAN : ApiHeartbeatSend(ok)
    \/ ServerPushFrame
    \/ \E encodeOk \in BOOLEAN : ApiStartPullFrameTask(encodeOk)
    \/ ApiStopPullFrameTask
    \/ CloseCall
    \/ StopHeartbeatTask
    \/ ConnectionClose
    \/ \E i \in 1..Len(tasks) : ApiSelectDefault(i)
    \/ \E i \in 1..Len(tasks) : ApiDecode(i)
    \/ \E i \in 1..Len(tasks) : ApiAddOneFrameEvict(i)
    \/ \E i \in 1..Len(tasks) : ApiAddOneFramePush(i)
    \/ ApiRequestSend
    \/ ApiRequestReceive
    \/ ApiQuery

SpecApi == InitApi /\ [][NextApi]_vars

\* =====================================================================
\* SpecTimed: the ingestion goroutine with its time stamps, and the
\* detector run on the buffer it has built. frames is c.FrameList's
\* *Frame values, frame the goroutine's local *Frame, clock is time.Now()
\* (the monotonic reading time.Time carries and Sub compares).
\* =====================================================================
\* ---------------------------------------------------------------- bounds
\* Advances of the clock in one run.
MaxTicks == 3
\* Entries the ingestion goroutine pushes in one run of SpecTimed.
MaxTimedPush == 4

\* The messages decoded: a frame looking at one of two places, a heartbeat
\* acknowledgement, a Decode error.
TimedPoints == {<<10, 10>>, <<200, 200>>}
TimedKinds == {"frame", "heartbeat", "error"}

InitTimed ==
    /\ ConnectionInit({1000}, {2, MaxTimedPush})
    /\ ConnectDone(HeartbeatTimeoutMillisecond)
    /\ NoApi
    /\ frames = <<>>
    /\ Fixation = [isNil |-> FALSE, map |-> [k \in {"max distance", "min msec"} |->
                                                IF k = "max distance" THEN 20 ELSE 50]]
    /\ TargetList = <<>>
    /\ form = [err |-> TRUE, n |-> 0]
    /\ nowMs = 0
    /\ NoResults

\* Time passes.
ClockTick ==
    /\ clock < MaxTicks * 60
    /\ clock' = clock + 60
    /\ UNCHANGED <<connectVars, apiVars, inputVars, outputVars, connVars, FrameList, hbVars,
                   pullVars, crashed, mainVars, queryVars>>

\* The goroutine's select takes default and PullOneFrame returns: an error
\* ends the goroutine; a discarded message gives a nil frame; a frame is
\* stamped "frame.GoTime = time.Now()".
TimedPullOneFrame(kind, p) ==
    /\ ~crashed
    /\ pullPc = "select"
    /\ nextElem <= MaxTimedPush
    /\ lastMsg' = kind
    /\ LET r == PullOneFrame(kind, nextElem)
       IN  IF QuitOnPullError(r.err)
           THEN /\ pullPc' = "done"
                /\ pullExit' = "error"
                /\ UNCHANGED frame
           ELSE /\ pullPc' = "add"
                /\ frame' = IF r.frame = 0 THEN NilFrame ELSE GazeFrame(p[1], p[2], clock)
                /\ UNCHANGED pullExit
    /\ UNCHANGED <<extraVars, inputVars, outputVars, connVars, FrameList, hbVars, QuitPullTask,
                   numFrames, nextElem, crashed, mainVars, queryVars>>

\* Mutant of PushBack: the entry is put at the front.
PushBack_Front(l, f) == <<f>> \o l

\* "c.FrameList.PushBack(frame)".
PushBack(l, f) == Append(l, f)

\* AddOneFrame(frame, numFrames), and the goroutine loops.
TimedAddOneFrame ==
    /\ ~crashed
    /\ pullPc = "add"
    /\ IF MustEvict(Len(frames), numFrames) /\ Len(frames) = 0
       THEN /\ crashed' = TRUE
            /\ UNCHANGED <<frames, pullPc, nextElem>>
       ELSE /\ frames' = PushBack(IF MustEvict(Len(frames), numFrames)
                                  THEN Tail(frames) ELSE frames, frame)
            /\ nextElem' = nextElem + 1
            /\ pullPc' = "select"
            /\ UNCHANGED crashed
    /\ UNCHANGED <<extraVars, Fixation, TargetList, form, nowMs, outputVars, connVars, FrameList,
                   hbVars, QuitPullTask, pullExit, numFrames, frame, lastMsg, mainVars, queryVars>>

\* A request runs GetFixationDataList on the buffer as it is now.
TimedGetFixationDataList ==
    /\ ~crashed
    /\ called = {}
    /\ called' = {"GetFixationDataList"}
    /\ nowMs' = clock
    /\ fixations' = GetFixationDataList(frames, Fixation, clock)
    /\ UNCHANGED <<extraVars, frames, Fixation, TargetList, form, checkResult, checkFixResult,
                   connVars, FrameList, hbVars, pullVars, crashed, mainVars, queryVars>>

NextTimed ==
    \/ ClockTick
    \/ \E encodeOk \in BOOLEAN : StartPullFrameTask(encodeOk)
    \/ \E kind \in TimedKinds, p \in TimedPoints : TimedPullOneFrame(kind, p)
    \/ TimedAddOneFrame
    \/ TimedGetFixationDataList

SpecTimed == InitTimed /\ [][NextTimed]_vars

\* =====================================================================
\* SpecLive: the running program of Spec with the scheduling Go gives it.
\* Every goroutine that can take a step takes one: the heartbeat goroutine
\* (its ticker fires, PushOneJson returns), the ingestion goroutine (its
\* select runs, Decode returns as the server pushes or the socket closes,
\* AddOneFrame runs) and the main goroutine inside Close. A send on a quit
\* channel completes whenever the receiving goroutine comes back to its
\* select again and again (strong fairness: the ticker fires once in an
\* interval, the goroutine waits in the select in between). What main calls
\* and when (StartPullFrameTask, Close, a request) is not forced.
\* =====================================================================
Fairness ==
    /\ WF_vars(HeartbeatTick)
    /\ WF_vars(\E ok \in BOOLEAN : HeartbeatSend(ok))
    /\ WF_vars(PullSelectDefault)
    /\ WF_vars(\E kind \in MsgKinds : PullDecode(kind))
    /\ WF_vars(AddOneFrameEvict)
    /\ WF_vars(AddOneFramePush)
    /\ SF_vars(StopHeartbeatTask)
    /\ SF_vars(StopPullFrameTask)
    /\ WF_vars(ConnectionClose)

SpecLive == Init /\ [][Next]_vars /\ Fairness

\* ------------------------------------------------------------ claims
IsPrefix(s, t) == Len(s) <= Len(t) /\ \A i \in 1..Len(s) : s[i] = t[i]

\* C1: the frame buffer never holds more than numFrames entries; the
\* eviction half of AddOneFrame removes exactly the front entry when the
\* buffer already holds numFrames entries and nothing otherwise, and the
\* append half puts the new entry behind the entries that remain, in their
\* previous order.
C1_CapacityEviction ==
    [][ /\ Len(FrameList') <= numFrames'
        /\ (pullPc = "add" /\ pullPc' = "push") =>
               IF Len(FrameList) >= numFrames
               THEN Len(FrameList) > 0 /\ FrameList' = Tail(FrameList)
               ELSE FrameList' = FrameList
        /\ (pullPc = "push" /\ pullPc' = "select") =>
               /\ Len(FrameList') = Len(FrameList) + 1
               /\ SubSeq(FrameList', 1, Len(FrameList)) = FrameList
               /\ FrameList'[Len(FrameList')].elem = nextElem ]_vars

\* C1 witness: capacity 3, entries 1, 2, 3, 4 pushed in order, the buffer
\* holds 2, 3, 4.
C1_Witness ==
    /\ numFrames = 3
    /\ pullPc = "select"
    /\ Elems(FrameList) = <<2, 3, 4>>

\* C2: the sequence of entries a query's loop has visited when it ends is
\* the complete ordered content the buffer had at one moment of the
\* iteration.
C2_SnapshotConsistentRead == qPc = "done" => qSeen \in qSnaps

\* Main is blocked in StopPullFrameTask's send and the goroutine that would
\* receive it has ended: the send never completes.
PullQuitNeverReceived == PullQuitOffered /\ pullPc = "done"

\* C7: after a first Close has returned on a connection whose ingestion
\* task was started, a later Close is never blocked for ever, and once it
\* has returned the socket is closed.
C7_CloseIdempotent ==
    (closeCalls >= 1 /\ QuitPullTask # 0 /\ ~crashed) =>
        /\ ~PullQuitNeverReceived
        /\ (closeIdx = 0 => ~sockOpen)

\* C8 as claimed: the calls Close has completed are, in order, stop the
\* ingestion task, stop the heartbeat task, close the socket.
C8_ShutdownOrderClaimed ==
    IsPrefix(closeLog, <<"StopPullFrameTask", "StopHeartbeatTask", "ConnectionClose">>)

\* C8 amended: the calls Close has completed are, in order, stop the
\* heartbeat task, stop the ingestion task, close the socket; the ingestion
\* goroutine is told to quit only after the heartbeat channel was cleared,
\* and the socket is closed only after both.
C8_ShutdownOrder ==
    /\ IsPrefix(closeLog, <<"StopHeartbeatTask", "StopPullFrameTask", "ConnectionClose">>)
    /\ (pullExit = "quit" => QuitHeartbeatTask = 0)
    /\ (~sockOpen => QuitHeartbeatTask = 0 /\ pullPc \in {"none", "done"})

\* C8 witness: a Close that stopped both running tasks and closed the socket.
C8_Witness ==
    /\ closeLog = <<"StopHeartbeatTask", "StopPullFrameTask", "ConnectionClose">>
    /\ hbPc = "done"
    /\ pullExit = "quit"
    /\ ~sockOpen

\* The messages PullOneFrame discards.
Discarded == {"heartbeat", "badstatus", "noframe"}

\* C9: a discarded message does not end the ingestion task, and while the
\* last decoded message is a discarded one the buffer does not change.
C9_DiscardLeavesBuffer ==
    [][ /\ (pullPc = "decoding" /\ lastMsg' \in Discarded) => pullPc' # "done"
        /\ lastMsg \in Discarded => FrameList' = FrameList ]_vars

\* C10: a Decode error ends the ingestion task with the buffer as it was,
\* and while the task is ended (until StartPullFrameTask starts it again)
\* the buffer does not change.
C10_FailClosed ==
    [][ /\ (pullPc = "decoding" /\ pullPc' # "decoding" /\ lastMsg' = "error") =>
               (pullPc' = "done" /\ FrameList' = FrameList)
        /\ pullPc = "done" => FrameList' = FrameList ]_vars

\* C10 witness: the task ended by a Decode error with frames in the buffer.
C10_Witness ==
    /\ pullPc = "done"
    /\ pullExit = "error"
    /\ lastMsg = "error"
    /\ Len(FrameList) = 2

\* ---------------------------------------------- claims on the handlers
\* A frame that carries a gaze point and is no sentinel.
HasValidGaze(f) == ~f.isNil /\ f.hasAvg /\ ~(f.X <= 0 /\ f.Y <= 0)

\* The start of the query window: now minus the requested (or default,
\* 10 s) number of milliseconds.
WindowStart == nowMs - (IF form.err THEN 10000 ELSE form.n)

\* Region v was reported true in result res.
ReportedTrue(res, v) == v.Name \in DOMAIN res /\ res[v.Name]

\* Some valid frame of the buffer, inside the window, lies in region v.
FrameInRegion(v) ==
    \E j \in 1..Len(frames) :
        /\ HasValidGaze(frames[j])
        /\ frames[j].GoTime >= WindowStart
        /\ v.X <= frames[j].X /\ frames[j].X <= v.X + v.Width
        /\ v.Y <= frames[j].Y /\ frames[j].Y <= v.Y + v.Height

\* Some fixation event of the buffer, inside the window, lies in region v.
EventInRegion(v) ==
    LET ev == GetFixationDataList(frames, Fixation, nowMs).events
    IN  \E j \in 1..Len(ev) :
            /\ ev[j].GoTime >= WindowStart
            /\ v.X * ev[j].X.den <= ev[j].X.num
            /\ ev[j].X.num <= (v.X + v.Width) * ev[j].X.den
            /\ v.Y * ev[j].Y.den <= ev[j].Y.num
            /\ ev[j].Y.num <= (v.Y + v.Height) * ev[j].Y.den

\* C3: after either region-check query, a configured region is reported
\* true if and only if at least one input point (a valid frame, or a
\* fixation event) inside the query window lies within the region, bounds
\* included.
C3_TrueIffSomePointInside ==
    \A i \in 1..Len(TargetList) :
        ~TargetList[i].isNil =>
            /\ "ServeEyeTrackCheck" \in called =>
                   (ReportedTrue(checkResult.result, TargetList[i])
                        <=> FrameInRegion(TargetList[i]))
            /\ ("ServeEyeTrackCheckFixation" \in called /\ ~checkFixResult.panic) =>
                   (ReportedTrue(checkFixResult.result, TargetList[i])
                        <=> EventInRegion(TargetList[i]))

\* C4: after either region-check query, the result has an entry for every
\* configured (non-nil) region.
C4_EveryRegionReported ==
    \A i \in 1..Len(TargetList) :
        ~TargetList[i].isNil =>
            /\ "ServeEyeTrackCheck" \in called =>
                   TargetList[i].Name \in DOMAIN checkResult.result
            /\ ("ServeEyeTrackCheckFixation" \in called /\ ~checkFixResult.panic) =>
                   TargetList[i].Name \in DOMAIN checkFixResult.result

\* The valid frames of the buffer, in order.
ValidFrames == SelectSeq(frames, HasValidGaze)

\* The configured minimum duration, 100 ms when the configuration has none.
MinDurationMs == IF "min msec" \in DOMAIN Fixation.map THEN Fixation.map["min msec"] ELSE 100

\* C5: on a buffer whose valid frames all have the same coordinate, the
\* detector returns exactly one event, at that coordinate, when the time
\* from the first to the last valid frame is at least the minimum duration,
\* and no event when it is less. Stated for the buffers whose front entry
\* is itself a valid frame, so that what C6 is about (a sentinel frame at
\* the front) plays no part in it.
C5_ConstantGazeOneEvent ==
    ( /\ "GetFixationDataList" \in called
      /\ ~fixations.panic
      /\ Len(frames) >= 1
      /\ HasValidGaze(frames[1])
      /\ \A j \in 1..Len(ValidFrames) :
             ValidFrames[j].X = ValidFrames[1].X /\ ValidFrames[j].Y = ValidFrames[1].Y )
    => IF ValidFrames[Len(ValidFrames)].GoTime - ValidFrames[1].GoTime >= MinDurationMs
       THEN /\ Len(fixations.events) = 1
            /\ fixations.events[1].X = [num |-> ValidFrames[1].X, den |-> 1]
            /\ fixations.events[1].Y = [num |-> ValidFrames[1].Y, den |-> 1]
       ELSE fixations.events = <<>>

\* A frame that is no sentinel frame (nil entries and frames without a point
\* are kept: they are not sentinel frames).
NotSentinel(f) == ~(~f.isNil /\ f.hasAvg /\ f.X <= 0 /\ f.Y <= 0)

\* C6: the detector returns for a buffer what it returns for the same
\* buffer with every sentinel frame removed.
C6_SentinelsIgnored ==
    "GetFixationDataList" \in called =>
        fixations = GetFixationDataList(SelectSeq(frames, NotSentinel), Fixation, nowMs)

\* ------------------------------------- claims on CreateServerConnection
\* An input the connect contract rejects: the socket cannot be opened, the
\* status code is not 200, the calibration flag is false, or one of the
\* four numeric fields is absent or is no number.
Rejected(sv) ==
    \/ ~sv.dial
    \/ sv.statuscode # 200
    \/ sv.iscalibrated = "false"
    \/ \E v \in {sv.heartbeatinterval, sv.screenresw, sv.screenresh, sv.framerate} :
           v.kind # "number"

\* C11: on every rejected input CreateServerConnection returns an error
\* value: the process has not crashed and no connection (no heartbeat
\* goroutine) was made.
C11_ConnectFailsWithError ==
    (connPc = "done" /\ Rejected(server)) =>
        /\ connResult = "error"
        /\ ~crashed
        /\ hbPc = "none"

\* ------------------------------------------ claims on the heartbeat task
\* C12: when main calls StopHeartbeatTask while the heartbeat goroutine is
\* inside PushOneJson, StopHeartbeatTask can return before that write has
\* completed.
C12_StopNotBlockedBySend ==
    (~crashed /\ AtCloseStep("StopHeartbeatTask") /\ hbPc = "sending") =>
        ENABLED StopHeartbeatTask

\* The heartbeat goroutines that are running.
HeartbeatTasks == IF hbPc \in {"select", "sending"} THEN 1 ELSE 0

\* The connection is open: CreateServerConnection returned it, Close has
\* not been called, and the process is alive.
ConnectionOpen == connResult = "ok" /\ closeIdx = 0 /\ closeCalls = 0 /\ ~crashed

\* C14 as claimed: while the connection is open exactly one heartbeat task
\* is running.
C14_ExactlyOneHeartbeat == ConnectionOpen => HeartbeatTasks = 1

\* C14 amended: while the connection is open at most one heartbeat task is
\* running: exactly one as long as no heartbeat send has failed, and none
\* once a send has failed.
C14_OneHeartbeatUntilSendFails ==
    ConnectionOpen =>
        /\ HeartbeatTasks <= 1
        /\ HeartbeatTasks = 1 <=> ~hbErr
        /\ HeartbeatTasks = 0 => hbPc = "done"

\* C14 witness: the connection is open and ingesting, and the heartbeat
\* task has ended on a failed send.
C14_Witness ==
    /\ ConnectionOpen
    /\ sockOpen
    /\ pullPc = "decoding"
    /\ hbPc = "done"
    /\ hbErr

\* ------------------------------------- claims on the connection's methods
\* C13: whatever calls of StartPullFrameTask, StopPullFrameTask and Close
\* are made, at most one ingestion goroutine is running at any time; the
\* frame buffer changes only in a step of an ingestion goroutine's
\* AddOneFrame; and a query leaves the buffer as it is.
C13_SingleIngestionWriter ==
    [][ /\ Cardinality(LiveTasks') <= 1
        /\ FrameList' # FrameList =>
               \E i \in 1..Len(tasks) :
                   tasks[i].pc \in {"add", "push"} /\ tasks'[i].pc # tasks[i].pc
        /\ qPc' # qPc => FrameList' = FrameList ]_vars

\* C15: the message RequestOne returns to GetServerStatus is the status
\* response, never a heartbeat acknowledgement or a pushed frame message.
C15_ResponseAnswersRequest == reqPc = "done" => response = "status"

\* ------------------------------------------- claims on sparse buffers
\* A buffer without a valid gaze point: empty, or holding only nil entries,
\* frames without an avg point and sentinel frames.
Sparse(l) == \A i \in 1..Len(l) : ~HasValidGaze(l[i])

\* C16: on a sparse buffer GetFixationDataList returns an empty event list
\* and no handler panics.
C16_SparseBufferNeverFails ==
    Sparse(frames) =>
        /\ "GetFixationDataList" \in called =>
               (~fixations.panic /\ fixations.events = <<>>)
        /\ "ServeEyeTrackCheck" \in called => ~checkResult.panic
        /\ "ServeEyeTrackCheckFixation" \in called => ~checkFixResult.panic

\* ------------------------------------------- claims on the detector
\* The detector's distance2 for the configuration in force.
MaxDistance2 ==
    LET max_distance == FixationParam(Fixation, "max distance", 50)
    IN  max_distance * max_distance

\* The detector's variables when its loop body is about to run on entry i
\* of the buffer (i = Len(frames) + 1: when the loop has ended).
RECURSIVE DetectorBefore(_)
DetectorBefore(i) ==
    IF i = 1
    THEN DetectorStart(frames, MinDurationMs, nowMs)
    ELSE DetectorStep(DetectorBefore(i - 1), frames[i - 1], MaxDistance2, MinDurationMs)

\* The events returned once the detector is past entry i.
ResultAfter(i) ==
    IF i <= Len(frames)
    THEN DetectorBefore(i + 1).result
    ELSE DetectorFlush(DetectorBefore(i))

\* At entry i the detector leaves its cluster: entry i is a valid frame
\* and the distance test on it succeeds.
BreakAt(i) ==
    /\ HasValidGaze(frames[i])
    /\ Farther(MaxDistance2, DetectorBefore(i).PrevX - frames[i].X,
                             DetectorBefore(i).PrevY - frames[i].Y)

\* The entry at which the cluster open before entry i was started: the
\* last break before i, 0 for the cluster the detector starts with.
ClusterStart(i) ==
    LET B == {j \in 1..(i - 1) : BreakAt(j)}
    IN  IF B = {} THEN 0 ELSE CHOOSE j \in B : \A k \in B : k <= j

\* The valid frames of the cluster open before entry i.
ClusterMembers(i) ==
    {j \in 1..(i - 1) : j >= ClusterStart(i) /\ HasValidGaze(frames[j])}

\* An event is added at entry i (i = Len(frames) + 1: after the loop).
EmittedAt(i) == Len(ResultAfter(i)) > Len(DetectorBefore(i).result)

\* GetFixationDataList has run on the buffer and returned.
DetectorRan ==
    /\ "GetFixationDataList" \in called
    /\ ~fixations.panic
    /\ fixations.events = ResultAfter(Len(frames) + 1)

\* C17: when the detector leaves a cluster of fewer than 2 frames because
\* the gaze moved farther than the maximum distance, it adds no event for
\* that cluster, whatever the time between the cluster and the move.
C17_ShortClusterNoEvent ==
    ("GetFixationDataList" \in called /\ ~fixations.panic) =>
        /\ fixations.events = ResultAfter(Len(frames) + 1)
        /\ \A i \in 1..Len(frames) :
               (BreakAt(i) /\ Cardinality(ClusterMembers(i)) < 2) => ~EmittedAt(i)

\* C17 witness: one frame, then 150 ms later a frame far away from it: the
\* one-frame cluster is left after more than the minimum duration and no
\* event is returned.
C17_Witness ==
    /\ DetectorRan
    /\ frames = <<GazeFrame(10, 10, 0), GazeFrame(200, 200, 150)>>
    /\ BreakAt(2)
    /\ Cardinality(ClusterMembers(2)) = 1
    /\ frames[2].GoTime - frames[1].GoTime > MinDurationMs
    /\ fixations.events = <<>>

\* The event added at entry i.
EventAt(i) == fixations.events[Len(DetectorBefore(i).result) + 1]

\* The last valid frame of the cluster open before entry i.
LastMember(i) == CHOOSE j \in ClusterMembers(i) : \A k \in ClusterMembers(i) : k <= j

\* The front entry of the buffer is a valid frame: the detector's first
\* cluster starts at a frame of its own.
ValidFront == Len(frames) >= 1 /\ HasValidGaze(frames[1])

\* C19 as claimed: the time of every event, added at a break or after the
\* loop, is the stamp of the last frame of the cluster it is added for.
\* Stated for the buffers whose front entry is a valid frame, so that a
\* sentinel frame at the front (C6) plays no part in it.
C19_EventTimeIsClusterEnd ==
    (DetectorRan /\ ValidFront) =>
        \A i \in 1..(Len(frames) + 1) :
            EmittedAt(i) =>
                /\ ClusterMembers(i) # {}
                /\ EventAt(i).GoTime = frames[LastMember(i)].GoTime

\* C19 amended: the time of every event, added at a break or after the
\* loop, is the stamp of the entry that started its cluster: the frame at
\* which the cluster before it was left or, for the cluster the detector
\* starts with, the front entry of the buffer.
C19_EventTimeIsClusterStart ==
    ("GetFixationDataList" \in called /\ ~fixations.panic) =>
        /\ fixations.events = ResultAfter(Len(frames) + 1)
        /\ \A i \in 1..(Len(frames) + 1) :
               EmittedAt(i) =>
                   /\ ClusterMembers(i) # {}
                   /\ ClusterStart(i) = 0 => ~frames[1].isNil
                   /\ EventAt(i).GoTime =
                          frames[IF ClusterStart(i) = 0 THEN 1 ELSE ClusterStart(i)].GoTime

\* C19 witness: a cluster of two frames stamped 0 and 100 is left at a
\* third frame, and the event added for it carries 0, the stamp of the
\* frame that started it.
C19_Witness ==
    /\ DetectorRan
    /\ Len(frames) = 3
    /\ ValidFront
    /\ EmittedAt(3)
    /\ ClusterMembers(3) = {1, 2}
    /\ frames[1].GoTime = 0
    /\ frames[2].GoTime = 100
    /\ EventAt(3).GoTime = 0

\* The valid frame before entry i that is nearest to it, 0 when none is.
PrevValid(i) ==
    LET V == {j \in 1..(i - 1) : HasValidGaze(frames[j])}
    IN  IF V = {} THEN 0 ELSE CHOOSE j \in V : \A k \in V : k <= j

\* The squared distance between the points of entries i and j.
Dist2(i, j) ==
    (frames[i].X - frames[j].X) * (frames[i].X - frames[j].X)
    + (frames[i].Y - frames[j].Y) * (frames[i].Y - frames[j].Y)

\* C20: at a valid frame that has a valid frame before it, the detector
\* leaves its cluster exactly when the squared distance to the nearest
\* valid frame before it exceeds the squared maximum distance. Stated for
\* the buffers whose front entry is a valid frame.
C20_BreakOnPreviousFrame ==
    (DetectorRan /\ ValidFront) =>
        \A i \in 1..Len(frames) :
            (HasValidGaze(frames[i]) /\ PrevValid(i) # 0) =>
                (BreakAt(i) <=> Dist2(i, PrevValid(i)) > MaxDistance2)

\* ------------------------------------------------ claims on time order
\* C18: the stamps of the frames of the buffer do not decrease from front
\* to back, and the times of the events GetFixationDataList returned do not
\* decrease from first to last.
C18_TimeOrdered ==
    /\ TimeOrdered(frames)
    /\ \A i, j \in 1..Len(fixations.events) :
           i < j => fixations.events[i].GoTime <= fixations.events[j].GoTime

\* C18 witness: four frames stamped 0, 60, 120 and 180 are in the buffer,
\* and the detector has returned two events, the first earlier than the
\* second.
C18_Witness ==
    /\ Len(frames) = 4
    /\ \A i \in 1..4 : ~frames[i].isNil /\ frames[i].GoTime = (i - 1) * 60
    /\ Len(fixations.events) = 2
    /\ fixations.events[1].GoTime < fixations.events[2].GoTime

\* ------------------------------------------- claims on the centroid
\* Entry i is a valid frame the detector folds into its open cluster.
Folded(i) == HasValidGaze(frames[i]) /\ ~BreakAt(i)

\* C21: every frame folded into a cluster moves the centroid toward that
\* frame's own point with weight 1 / (1 + clusterSize), clusterSize being
\* the count of the frames folded in, that frame included (an online
\* running mean), and an event carries the centroid of its cluster. Stated
\* for the buffers whose front entry is a valid frame.
C21_RunningMeanCentroid ==
    (DetectorRan /\ ValidFront) =>
        /\ \A i \in 1..Len(frames) :
               Folded(i) =>
                   LET s == DetectorBefore(i)
                       n == s.fixate_count + 1
                   IN  /\ DetectorBefore(i + 1).AverageX = Blend(s.AverageX, frames[i].X, n)
                       /\ DetectorBefore(i + 1).AverageY = Blend(s.AverageY, frames[i].Y, n)
        /\ \A i \in 1..(Len(frames) + 1) :
               EmittedAt(i) =>
                   /\ EventAt(i).X = DetectorBefore(i).AverageX
                   /\ EventAt(i).Y = DetectorBefore(i).AverageY

\* ------------------------------------------- claims on the duration
\* The first valid frame of the cluster open before entry i.
FirstMember(i) == CHOOSE j \in ClusterMembers(i) : \A k \in ClusterMembers(i) : j <= k

\* The cluster's own duration: from its first member frame to its last.
ClusterDuration(i) == frames[LastMember(i)].GoTime - frames[FirstMember(i)].GoTime

\* C22: no event is added, at a break or after the loop, for a cluster
\* whose own duration is shorter than the minimum duration, however late
\* the frame that breaks the cluster arrives. Stated for the buffers whose
\* front entry is a valid frame.
C22_ShortDurationNeverEmitted ==
    (DetectorRan /\ ValidFront) =>
        \A i \in 1..(Len(frames) + 1) :
            EmittedAt(i) =>
                /\ ClusterMembers(i) # {}
                /\ ClusterDuration(i) >= MinDurationMs

\* ------------------------------------------- claims on the defaults
\* The value the configuration supplies for a fixation parameter, def when
\* it supplies none: no fixation section, or a section without the key.
Supplied(key, def) ==
    IF ~Fixation.isNil /\ key \in DOMAIN Fixation.map THEN Fixation.map[key] ELSE def

\* What the detector returns on the buffer with the given parameters.
EventsWith(max_distance, min_msec) ==
    DetectorFlush(DetectorLoop(DetectorStart(frames, min_msec, nowMs), frames, 1,
                               max_distance * max_distance, min_msec))

\* C23: GetFixationDataList completes normally and returns what the
\* detector returns with the supplied parameters, 50 for a maximum distance
\* and 100 for a minimum duration the configuration does not supply: with
\* one key missing, with both missing, and without a fixation section.
C23_DefaultsWhenNotSupplied ==
    "GetFixationDataList" \in called =>
        /\ ~fixations.panic
        /\ fixations.events = EventsWith(Supplied("max distance", 50), Supplied("min msec", 100))

\* ------------------------------------------------- claims on shutdown
\* Main is inside a call of Close.
InClose == closeIdx > 0

\* Close has returned and the socket is closed.
CloseReturned == closeIdx = 0 /\ ~sockOpen

\* C24: a call of Close eventually returns with the socket closed, whatever
\* the heartbeat and the ingestion goroutine have done before (a panic of a
\* goroutine, which ends the process, aside).
C24_CloseEventuallyReturns == (InClose /\ ~crashed) ~> (CloseReturned \/ crashed)

\* C25: when Close's socket close step has run, the heartbeat goroutine
\* and the ingestion goroutine have ended (or were never started), and from
\* then on neither takes a step: no heartbeat is sent, no message is
\* decoded and no entry is removed from or appended to the buffer.
C25_NoUseAfterClose ==
    [][ /\ ~sockOpen' => (hbPc' \in {"none", "done"} /\ pullPc' \in {"none", "done"})
        /\ ~sockOpen =>
               /\ hbPc' = hbPc
               /\ pullPc' = pullPc
               /\ lastMsg' = lastMsg
               /\ nextElem' = nextElem
               /\ FrameList' = FrameList ]_vars

\* C25 witness: Close has returned with the socket closed after it stopped
\* a heartbeat goroutine that had sent heartbeats and an ingestion goroutine
\* that had decoded and appended a frame.
C25_Witness ==
    /\ ~sockOpen
    /\ closeIdx = 0
    /\ closeCalls = 1
    /\ hbPc = "done"
    /\ ~hbErr
    /\ pullExit = "quit"
    /\ lastMsg = "frame"
    /\ Len(FrameList) >= 1

\* ------------------------------------------------ claims on the capacity
\* CreateServerConnection accepted the server's status response.
Accepted(sv) == sv.dial /\ GetServerStatus(sv).outcome = "ok" /\ GetServerStatus(sv).calibrated

\* C26: for an accepted status response and a positive retention time, a
\* call of StartPullFrameTask does not panic in its division, the
\* ingestion goroutine it starts has a capacity numFrames of at least 1,
\* and AddOneFrame does not panic removing the front of an empty buffer.
C26_CapacityAtLeastOne ==
    [][ (Accepted(server) /\ second > 0) =>
            /\ startCalls' # startCalls => ~crashed'
            /\ (pullPc \in {"none", "done"} /\ pullPc' = "select") => numFrames' >= 1
            /\ pullPc = "add" => ~crashed' ]_vars

====
